---- MODULE Spec2Model ----
(***************************************************************************)
(* Model of sign_helper_example/ecc_sign_helper.py: a one-shot command     *)
(* that signs a pre-hashed SHA-384 digest with an ECDSA P-384 private key  *)
(* and delivers the signature on standard output (stdin mode) or by        *)
(* overwriting the input file (file mode).                                 *)
(*                                                                         *)
(* One invocation is a run of the steps of main(); the file system is      *)
(* kept from one invocation to the next.                                   *)
(***************************************************************************)
EXTENDS Integers, Sequences, FiniteSets, TLC

VARIABLES
    argv,        \* the parsed command line: [key, by_file, input]
    stdin,       \* the characters on standard input
    fs,          \* the input file: [exists, data, writable]
    fs0,         \* the input file as it was when the invocation started
    keyFiles,    \* key path -> "absent" | "garbage" | "ec"
    pc,          \* position of the invocation in main()
    key_path,    \* local of main()
    digest_hex,  \* local of sign_from_stdin()
    digest,      \* local of sign_from_stdin() / sign_by_file()
    signature,   \* local of sign_from_stdin() / sign_by_file()
    stdout,      \* lines written to standard output
    stderr,      \* messages written to standard error
    exitCode,    \* process exit status, Running while the process runs
    events,      \* system calls of the invocation, in order
    last         \* the signature delivered by an earlier invocation, if any

vars == <<argv, stdin, fs, fs0, keyFiles, pc, key_path, digest_hex, digest,
          signature, stdout, stderr, exitCode, events, last>>

-----------------------------------------------------------------------------
(* Bounds *)

NumNonces == 2

Nonces == 1..NumNonces

-----------------------------------------------------------------------------
(* Program constants *)

DigestSize == 48

FwKeyPath == "key/ast2700a1-default/own-fw-ecc-prvk.pem"
ManKeyPath == "key/ast2700a1-default/own-man-ecc-prvk.pem"
KeyPaths == {FwKeyPath, ManKeyPath}

NoArg == "<None>"
NoPath == "<unset>"
Running == -1
InputPath == "digest.bin"

-----------------------------------------------------------------------------
(* Strings and bytes *)

Rep(c, n) == [i \in 1..n |-> c]

Whitespace == {" ", "\t", "\n", "\r"}

RECURSIVE LStrip(_), RStrip(_)

LStrip(s) ==
    IF s # <<>> /\ Head(s) \in Whitespace THEN LStrip(Tail(s)) ELSE s

RStrip(s) ==
    IF s # <<>> /\ s[Len(s)] \in Whitespace
      THEN RStrip(SubSeq(s, 1, Len(s) - 1)) ELSE s

\* str.strip(): drop leading and trailing whitespace
Strip(s) == RStrip(LStrip(s))

\* sys.stdin.readline(): up to and including the first newline, or to EOF
ReadLine(s) ==
    LET nl == {i \in 1..Len(s) : s[i] = "\n"}
    IN  IF nl = {} THEN s
        ELSE SubSeq(s, 1, CHOOSE i \in nl : \A j \in nl : i <= j)

LowerHex == <<"0","1","2","3","4","5","6","7","8","9","a","b","c","d","e","f">>
UpperHex == <<"0","1","2","3","4","5","6","7","8","9","A","B","C","D","E","F">>

IsHex(c) == \E n \in 1..16 : LowerHex[n] = c \/ UpperHex[n] = c
HexVal(c) == (CHOOSE n \in 1..16 : LowerHex[n] = c \/ UpperHex[n] = c) - 1

\* a decoder that checks the digits but not their number
UnhexlifyRaises_OddAccepted(s) == \E i \in 1..Len(s) : ~IsHex(s[i])

\* binascii.unhexlify raises binascii.Error on these
UnhexlifyRaises(s) == Len(s) % 2 # 0 \/ \E i \in 1..Len(s) : ~IsHex(s[i])

\* binascii.unhexlify: two hex digits per byte
Unhexlify(s) ==
    [i \in 1..(Len(s) \div 2) |-> 16 * HexVal(s[2*i - 1]) + HexVal(s[2*i])]

\* binascii.hexlify(...).decode(): two lowercase hex digits per byte
Hexlify(b) ==
    [i \in 1..(2 * Len(b)) |->
        IF i % 2 = 1 THEN LowerHex[(b[(i + 1) \div 2] \div 16) + 1]
                     ELSE LowerHex[(b[i \div 2] % 16) + 1]]

-----------------------------------------------------------------------------
(* The signing primitive *)

KeyId(p) == IF p = FwKeyPath THEN 1 ELSE 2

\* private_key.sign(digest, ec.ECDSA(Prehashed(hashes.SHA384()))): a
\* randomized signature (per-call nonce n) by the key stored at path p,
\* encoded as a byte string that binds the key and the digest.
EcdsaSign(d, p, n) == <<KeyId(p), n>> \o d

\* signing without the prehash wrapper: data of any length is accepted
PrehashedRaises_Never(d) == FALSE

\* Prehashed(SHA384) refuses data whose length is not the digest size
PrehashedRaises(d) == Len(d) # DigestSize

\* what sign_digest raises, if anything
SignDigestRaises(d, p) ==
    \/ p \notin KeyPaths
    \/ keyFiles[p] # "ec"
    \/ PrehashedRaises(d)


-----------------------------------------------------------------------------
(* Inputs of an invocation *)

KeyArgs == {NoArg, "fw", "man", "rsa"}
InputArgs == {NoArg, "", InputPath}

Argvs == [key : KeyArgs, by_file : BOOLEAN, input : InputArgs]
NoArgv == [key |-> NoArg, by_file |-> FALSE, input |-> NoArg]

HexLine(c) == Rep(c, 2 * DigestSize)

FirstLines ==
    { <<>>,                                       \* empty line
      <<" ", "\t">>,                              \* whitespace only
      HexLine("a"),                               \* 48 bytes, lowercase
      <<" ">> \o HexLine("A") \o <<"\r">>,        \* 48 bytes, uppercase, padded
      HexLine("5"),                               \* another 48-byte digest
      Rep("a", 2 * DigestSize - 1),               \* odd number of digits
      Rep("a", 2 * DigestSize - 1) \o <<"g">>,    \* a non-hex character
      Rep("a", DigestSize) \o <<" ", " ">> \o Rep("a", DigestSize - 2),
                                                  \* whitespace inside
      Rep("a", 2 * DigestSize - 2),               \* 47 bytes
      Rep("a", 2 * DigestSize + 2) }              \* 49 bytes

StdinChoices ==
    {<<>>, HexLine("a")}
      \cup {l \o <<"\n">> : l \in FirstLines}
      \cup {l \o <<"\n">> \o HexLine("5") \o <<"\n">> :
               l \in {<<>>, HexLine("a")}}

Absent == [exists |-> FALSE, data |-> <<>>, writable |-> FALSE]
File(d, w) == [exists |-> TRUE, data |-> d, writable |-> w]

FileStates ==
    { Absent,
      File(<<>>, TRUE),
      File(Rep(170, DigestSize), TRUE),
      File(Rep(170, DigestSize), FALSE),
      File(Rep(170, DigestSize - 1), TRUE),
      File(Rep(170, DigestSize + 1), TRUE) }

KeyFileStates ==
    { [p \in KeyPaths |-> "ec"],
      [p \in KeyPaths |-> IF p = FwKeyPath THEN "absent" ELSE "ec"],
      [p \in KeyPaths |-> IF p = FwKeyPath THEN "ec" ELSE "garbage"] }

NoSig == [digest |-> <<>>, key |-> NoArg, sig |-> <<>>]

\* the digest the caller supplied to this invocation
SuppliedDigest ==
    IF argv.by_file THEN fs0.data ELSE Unhexlify(Strip(ReadLine(stdin)))

\* the signature bytes the caller received from this invocation
DeliveredSig ==
    IF argv.by_file THEN fs.data ELSE Unhexlify(stdout[Len(stdout)])

-----------------------------------------------------------------------------
(* The invocation *)

Init ==
    /\ argv = NoArgv
    /\ stdin = <<>>
    /\ fs \in FileStates
    /\ fs0 = fs
    /\ keyFiles \in KeyFileStates
    /\ pc = "parse_args"
    /\ key_path = NoPath
    /\ digest_hex = <<>>
    /\ digest = <<>>
    /\ signature = <<>>
    /\ stdout = <<>>
    /\ stderr = <<>>
    /\ exitCode = Running
    /\ events = <<>>
    /\ last = NoSig

\* sys.exit(code) after a message on standard error
Exit(code, msg) ==
    /\ stderr' = Append(stderr, msg)
    /\ exitCode' = code
    /\ pc' = "done"

\* an exception nobody catches: the interpreter prints the traceback on
\* standard error and exits with status 1
Raise(exc) == Exit(1, "Traceback (most recent call last): " \o exc)

\* main(): the argument parser, on the command line the caller gave; --key
\* is required
ParseArgs ==
    /\ pc = "parse_args"
    /\ argv' \in Argvs
    /\ IF argv'.key = NoArg
         THEN Exit(2, "usage: error: the following arguments are required: --key")
         ELSE pc' = "select_key" /\ UNCHANGED <<stderr, exitCode>>
    /\ UNCHANGED <<stdin, fs, fs0, keyFiles, key_path, digest_hex,
                   digest, signature, stdout, events, last>>

\* key selection with the two paths exchanged
SelectKey_Swapped ==
    /\ pc = "select_key"
    /\ IF argv.key = "fw"
         THEN /\ key_path' = ManKeyPath
              /\ pc' = "choose_flow"
              /\ UNCHANGED <<stderr, exitCode>>
         ELSE IF argv.key = "man"
           THEN /\ key_path' = FwKeyPath
                /\ pc' = "choose_flow"
                /\ UNCHANGED <<stderr, exitCode>>
           ELSE /\ Exit(1, "Unknown key type")
                /\ UNCHANGED key_path
    /\ UNCHANGED <<argv, stdin, fs, fs0, keyFiles, digest_hex, digest,
                   signature, stdout, events, last>>

\* key selection where any value but "man" selects the fw key
SelectKey_DefaultFw ==
    /\ pc = "select_key"
    /\ key_path' = IF argv.key = "man" THEN ManKeyPath ELSE FwKeyPath
    /\ pc' = "choose_flow"
    /\ UNCHANGED <<argv, stdin, fs, fs0, keyFiles, digest_hex, digest,
                   signature, stdout, stderr, exitCode, events, last>>

\* main(): select the private key from --key
SelectKey ==
    /\ pc = "select_key"
    /\ IF argv.key = "fw"
         THEN /\ key_path' = FwKeyPath
              /\ pc' = "choose_flow"
              /\ UNCHANGED <<stderr, exitCode>>
         ELSE IF argv.key = "man"
           THEN /\ key_path' = ManKeyPath
                /\ pc' = "choose_flow"
                /\ UNCHANGED <<stderr, exitCode>>
           ELSE /\ Exit(1, "Unknown key type")
                /\ UNCHANGED key_path
    /\ UNCHANGED <<argv, stdin, fs, fs0, keyFiles, digest_hex, digest,
                   signature, stdout, events, last>>

\* flow selection that falls back to stdin mode when --input is missing
ChooseFlow_NoInputFallsBack ==
    /\ pc = "choose_flow"
    /\ IF argv.by_file /\ argv.input \notin {NoArg, ""}
         THEN /\ stderr' = Append(stderr, "Using input file")
              /\ pc' = "file_exists"
              /\ UNCHANGED exitCode
         ELSE pc' = "stdin_readline" /\ UNCHANGED <<stderr, exitCode>>
    /\ UNCHANGED <<argv, stdin, fs, fs0, keyFiles, key_path, digest_hex,
                   digest, signature, stdout, events, last>>

\* main(): choose the flow from --by-file
ChooseFlow ==
    /\ pc = "choose_flow"
    /\ IF argv.by_file
         THEN IF argv.input \in {NoArg, ""}
                THEN Exit(1, "Error: --input <path> is required when using --by-file")
                ELSE /\ stderr' = Append(stderr, "Using input file")
                     /\ pc' = "file_exists"
                     /\ UNCHANGED exitCode
         ELSE pc' = "stdin_readline" /\ UNCHANGED <<stderr, exitCode>>
    /\ UNCHANGED <<argv, stdin, fs, fs0, keyFiles, key_path, digest_hex,
                   digest, signature, stdout, events, last>>

\* sign_from_stdin(): read and strip the first line of what the caller
\* put on standard input
StdinReadline ==
    /\ pc = "stdin_readline"
    /\ stdin' \in StdinChoices
    /\ events' = Append(events, <<"readline">>)
    /\ digest_hex' = Strip(ReadLine(stdin'))
    /\ IF digest_hex' = <<>>
         THEN Exit(1, "Error: No digest provided via stdin")
         ELSE pc' = "stdin_unhexlify" /\ UNCHANGED <<stderr, exitCode>>
    /\ UNCHANGED <<argv, fs, fs0, keyFiles, key_path, digest,
                   signature, stdout, last>>

\* sign_from_stdin(): decode the hex digest
StdinUnhexlify ==
    /\ pc = "stdin_unhexlify"
    /\ IF UnhexlifyRaises(digest_hex)
         THEN Raise("binascii.Error") /\ UNCHANGED digest
         ELSE /\ digest' = Unhexlify(digest_hex)
              /\ stderr' = Append(stderr, "[STDIN MODE] Signing digest")
              /\ pc' = "sign_digest"
              /\ UNCHANGED exitCode
    /\ UNCHANGED <<argv, stdin, fs, fs0, keyFiles, key_path, digest_hex,
                   signature, stdout, events, last>>

\* sign_by_file(): the input file must exist
FileExists ==
    /\ pc = "file_exists"
    /\ events' = Append(events, <<"exists", argv.input>>)
    /\ IF ~fs.exists
         THEN Exit(1, "Error: input file does not exist")
         ELSE pc' = "file_read" /\ UNCHANGED <<stderr, exitCode>>
    /\ UNCHANGED <<argv, stdin, fs, fs0, keyFiles, key_path, digest_hex,
                   digest, signature, stdout, last>>

\* reading the digest through a handle that truncates the file
FileRead_Truncates ==
    /\ pc = "file_read"
    /\ events' = Append(events, <<"open", argv.input, "rb">>)
    /\ digest' = fs.data
    /\ fs' = [fs EXCEPT !.data = <<>>]
    /\ stderr' = Append(stderr, "[FILE MODE] Signing digest from file")
    /\ pc' = "sign_digest"
    /\ UNCHANGED <<argv, stdin, fs0, keyFiles, key_path, digest_hex,
                   signature, stdout, exitCode, last>>

\* sign_by_file(): read the raw digest bytes
FileRead ==
    /\ pc = "file_read"
    /\ events' = Append(events, <<"open", argv.input, "rb">>)
    /\ digest' = fs.data
    /\ stderr' = Append(stderr, "[FILE MODE] Signing digest from file")
    /\ pc' = "sign_digest"
    /\ UNCHANGED <<argv, stdin, fs, fs0, keyFiles, key_path, digest_hex,
                   signature, stdout, exitCode, last>>

\* signing that always opens the fw key, whatever key_path says
SignDigest_FixedKey ==
    /\ pc = "sign_digest"
    /\ IF SignDigestRaises(digest, FwKeyPath)
         THEN /\ events' = Append(events, <<"open", FwKeyPath, "rb">>)
              /\ Raise(IF keyFiles[FwKeyPath] = "absent"
                         THEN "FileNotFoundError" ELSE "ValueError")
              /\ UNCHANGED signature
         ELSE /\ events' = events \o <<<<"open", FwKeyPath, "rb">>, <<"sign">>>>
              /\ \E n \in Nonces : signature' = EcdsaSign(digest, FwKeyPath, n)
              /\ pc' = IF argv.by_file THEN "file_write" ELSE "stdin_write"
              /\ UNCHANGED <<stderr, exitCode>>
    /\ UNCHANGED <<argv, stdin, fs, fs0, keyFiles, key_path, digest_hex,
                   digest, stdout, last>>

\* sign_digest(): open and load the key, sign the digest
SignDigest ==
    /\ pc = "sign_digest"
    /\ IF SignDigestRaises(digest, key_path)
         THEN /\ events' = Append(events, <<"open", key_path, "rb">>)
              /\ Raise(IF keyFiles[key_path] = "absent"
                         THEN "FileNotFoundError" ELSE "ValueError")
              /\ UNCHANGED signature
         ELSE /\ events' = events \o <<<<"open", key_path, "rb">>, <<"sign">>>>
              /\ \E n \in Nonces : signature' = EcdsaSign(digest, key_path, n)
              /\ pc' = IF argv.by_file THEN "file_write" ELSE "stdin_write"
              /\ UNCHANGED <<stderr, exitCode>>
    /\ UNCHANGED <<argv, stdin, fs, fs0, keyFiles, key_path, digest_hex,
                   digest, stdout, last>>

\* the diagnostic line printed on standard output as well
StdinWrite_DiagOnStdout ==
    /\ pc = "stdin_write"
    /\ events' = Append(events, <<"write_stdout">>)
    /\ stderr' = Append(stderr, "Signature generated (DER hex)")
    /\ stdout' = stdout \o <<Hexlify(signature), Hexlify(signature)>>
    /\ exitCode' = 0
    /\ pc' = "done"
    /\ UNCHANGED <<argv, stdin, fs, fs0, keyFiles, key_path, digest_hex,
                   digest, signature, last>>

\* sign_from_stdin(): write the signature, hex-encoded, to standard output
StdinWrite ==
    /\ pc = "stdin_write"
    /\ events' = Append(events, <<"write_stdout">>)
    /\ stderr' = Append(stderr, "Signature generated (DER hex)")
    /\ stdout' = Append(stdout, Hexlify(signature))
    /\ exitCode' = 0
    /\ pc' = "done"
    /\ UNCHANGED <<argv, stdin, fs, fs0, keyFiles, key_path, digest_hex,
                   digest, signature, last>>

\* the signature appended to the file instead of replacing its content
FileWrite_Append ==
    /\ pc = "file_write"
    /\ events' = Append(events, <<"open", argv.input, "wb">>)
    /\ IF ~fs.writable
         THEN Raise("PermissionError") /\ UNCHANGED fs
         ELSE /\ fs' = [fs EXCEPT !.data = fs.data \o signature]
              /\ stderr' = Append(stderr, "Signature written back to file")
              /\ exitCode' = 0
              /\ pc' = "done"
    /\ UNCHANGED <<argv, stdin, fs0, keyFiles, key_path, digest_hex, digest,
                   signature, stdout, last>>

\* sign_by_file(): overwrite the input file with the signature
FileWrite ==
    /\ pc = "file_write"
    /\ events' = Append(events, <<"open", argv.input, "wb">>)
    /\ IF ~fs.writable
         THEN Raise("PermissionError") /\ UNCHANGED fs
         ELSE /\ fs' = [fs EXCEPT !.data = signature]
              /\ stderr' = Append(stderr, "Signature written back to file")
              /\ exitCode' = 0
              /\ pc' = "done"
    /\ UNCHANGED <<argv, stdin, fs0, keyFiles, key_path, digest_hex, digest,
                   signature, stdout, last>>

\* the process has exited; the caller keeps the signature it was given, if
\* any, and starts the helper again
NewInvocation ==
    /\ pc = "done"
    /\ last' = IF exitCode = 0
                 THEN [digest |-> SuppliedDigest, key |-> argv.key,
                       sig |-> DeliveredSig]
                 ELSE last
    /\ argv' = NoArgv
    /\ stdin' = <<>>
    /\ fs0' = fs
    /\ pc' = "parse_args"
    /\ key_path' = NoPath
    /\ digest_hex' = <<>>
    /\ digest' = <<>>
    /\ signature' = <<>>
    /\ stdout' = <<>>
    /\ stderr' = <<>>
    /\ exitCode' = Running
    /\ events' = <<>>
    /\ UNCHANGED <<fs, keyFiles>>

Next ==
    \/ ParseArgs
    \/ SelectKey
    \/ ChooseFlow
    \/ StdinReadline
    \/ StdinUnhexlify
    \/ FileExists
    \/ FileRead
    \/ SignDigest
    \/ StdinWrite
    \/ FileWrite
    \/ NewInvocation

Spec == Init /\ [][Next]_vars


-----------------------------------------------------------------------------
(* Vocabulary of the properties *)

Done == pc = "done"

\* argparse accepted the command line
KeyGiven == argv.key # NoArg

ValidKeys == {"fw", "man"}

KeyTable(k) ==
    IF k = "fw" THEN "key/ast2700a1-default/own-fw-ecc-prvk.pem"
               ELSE "key/ast2700a1-default/own-man-ecc-prvk.pem"

\* the first line of standard input, stripped
FirstLine == Strip(ReadLine(stdin))

HasEvent(e) == \E i \in 1..Len(events) : events[i] = e

IsKeyOpen(e) == Len(e) = 3 /\ e[1] = "open" /\ e[2] # InputPath

KeyOpened == \E i \in 1..Len(events) : IsKeyOpen(events[i])

TouchesInput(e) == Len(e) >= 2 /\ e[2] = InputPath

Signed == HasEvent(<<"sign">>)

NoSignatureOut == stdout = <<>> /\ fs = fs0

IsPrefix(s, t) == Len(s) <= Len(t) /\ s = SubSeq(t, 1, Len(s))

\* ECDSA verification of sig over digest d with the public key of key k
Verify(k, d, sig) ==
    /\ k \in ValidKeys
    /\ Len(sig) = Len(d) + 2
    /\ sig[1] = KeyId(KeyTable(k))
    /\ sig[2] \in Nat
    /\ SubSeq(sig, 3, Len(sig)) = d

LowerHexDigits ==
    {"0","1","2","3","4","5","6","7","8","9","a","b","c","d","e","f"}
HexDigits == LowerHexDigits \cup {"A","B","C","D","E","F"}

\* s is not a hexadecimal string: odd number of digits, or a non-hex character
NotValidHex(s) ==
    \E t \in {s} : Len(t) % 2 = 1 \/ \E i \in 1..Len(t) : t[i] \notin HexDigits

-----------------------------------------------------------------------------
(* C1 *)

NoDigestOnStdin == ~argv.by_file /\ FirstLine = <<>>
InputFileMissing == argv.by_file /\ argv.input = InputPath /\ ~fs0.exists
UnknownKeyType == argv.key \notin ValidKeys
InputArgMissing == argv.by_file /\ argv.input = NoArg

\* C1: each of the four validation errors (no digest on stdin, input file
\* missing, unknown key type, --by-file without --input) ends the invocation
\* with exit code 1 and a message on standard error, and no signature is
\* computed or delivered.
C1_ValidationErrorsExit1 ==
    (Done /\ KeyGiven /\ (NoDigestOnStdin \/ InputFileMissing
                            \/ UnknownKeyType \/ InputArgMissing))
      => /\ exitCode = 1
         /\ stderr # <<>>
         /\ ~Signed
         /\ NoSignatureOut

C1_Witness ==
    /\ Done
    /\ argv.key \in ValidKeys
    /\ InputArgMissing
    /\ exitCode = 1
    /\ stderr = <<"Error: --input <path> is required when using --by-file">>

-----------------------------------------------------------------------------
(* C2 *)

\* C2: every finished invocation ended either with exit code 0 after
\* delivering a signature or with exit code 1 after a report on standard
\* error; no failure ends with another exit code.
C2_EveryFailureExits1 ==
    Done => \/ exitCode = 0 /\ (stdout # <<>> \/ fs # fs0)
            \/ exitCode = 1 /\ stderr # <<>>

-----------------------------------------------------------------------------
(* C3 *)

MalformedHex ==
    /\ KeyGiven
    /\ ~argv.by_file
    /\ HasEvent(<<"readline">>)
    /\ FirstLine # <<>>
    /\ NotValidHex(FirstLine)

\* C3: in stdin mode a non-empty first line that is not valid hexadecimal
\* ends the invocation with exit code 1; the key file is never opened, no
\* signature is computed and nothing is written to standard output.
C3_MalformedHexExits1 ==
    MalformedHex => /\ ~KeyOpened
                    /\ ~Signed
                    /\ stdout = <<>>
                    /\ pc \in {"stdin_unhexlify", "done"}
                    /\ Done => exitCode = 1

C3_Witness ==
    /\ MalformedHex
    /\ Done
    /\ Len(FirstLine) % 2 = 1
    /\ exitCode = 1

-----------------------------------------------------------------------------
(* C4 *)

\* C4: the only key file an invocation opens is the one --key names ("fw":
\* own-fw-ecc-prvk.pem, "man": own-man-ecc-prvk.pem), in both modes and
\* whatever --by-file and --input are.
C4_KeyFromKeyArgAlone ==
    /\ \A i \in 1..Len(events) :
          IsKeyOpen(events[i]) =>
             /\ argv.key \in ValidKeys
             /\ events[i][2] = KeyTable(argv.key)
    /\ key_path # NoPath =>
          argv.key \in ValidKeys /\ key_path = KeyTable(argv.key)

C4_Witness ==
    /\ Done
    /\ exitCode = 0
    /\ argv.by_file
    /\ argv.key = "man"
    /\ HasEvent(<<"open", "key/ast2700a1-default/own-man-ecc-prvk.pem", "rb">>)

-----------------------------------------------------------------------------
(* C5 *)

\* C5: a successful file-mode invocation exits with code 0 and leaves the
\* input file holding exactly the signature, by the selected key, of the
\* bytes the file held when the invocation started; nothing is written to
\* standard output.
C5_FileModeOverwrites ==
    (Done /\ argv.by_file /\ exitCode = 0)
      => /\ fs.exists
         /\ fs0.exists
         /\ Verify(argv.key, fs0.data, fs.data)
         /\ fs.data # fs0.data
         /\ stdout = <<>>

C5_Witness ==
    /\ Done
    /\ argv.by_file
    /\ exitCode = 0
    /\ Len(fs0.data) = DigestSize
    /\ Len(fs.data) > DigestSize

-----------------------------------------------------------------------------
(* C6 *)

FirstLineIsDigest ==
    /\ FirstLine # <<>>
    /\ ~NotValidHex(FirstLine)
    /\ Len(FirstLine) = 2 * 48

\* C6: a successful stdin-mode invocation exits with code 0 and writes to
\* standard output exactly one line, the lowercase hex encoding of the
\* signature over the bytes decoded from the stripped first line of stdin;
\* the input file is untouched, and the first line alone decides the
\* outcome, whatever follows it on stdin.
C6_StdinModeOutput ==
    /\ (Done /\ ~argv.by_file /\ exitCode = 0)
         => /\ Len(stdout) = 1
            /\ \A i \in 1..Len(stdout[1]) : stdout[1][i] \in LowerHexDigits
            /\ FirstLineIsDigest
            /\ Verify(argv.key, Unhexlify(FirstLine), Unhexlify(stdout[1]))
            /\ fs = fs0
    /\ (Done /\ ~argv.by_file /\ argv.key \in ValidKeys
             /\ keyFiles[KeyTable(argv.key)] = "ec" /\ FirstLineIsDigest)
         => exitCode = 0

C6_Witness ==
    /\ Done
    /\ ~argv.by_file
    /\ exitCode = 0
    /\ Len(stdin) > Len(ReadLine(stdin))
    /\ Len(stdout) = 1

-----------------------------------------------------------------------------
(* C7 *)

\* C7: every signature delivered, by this invocation or an earlier one,
\* verifies against the public key of the key --key selected, over the
\* digest the caller supplied; the signature itself may differ from one
\* invocation to the next on the same digest and key.
C7_DeliveredSignatureVerifies ==
    /\ (Done /\ exitCode = 0)
         => Verify(argv.key, SuppliedDigest, DeliveredSig)
    /\ last # NoSig => Verify(last.key, last.digest, last.sig)

C7_Witness ==
    /\ Done
    /\ exitCode = 0
    /\ last.key = argv.key
    /\ last.digest = SuppliedDigest
    /\ last.sig # DeliveredSig
    /\ Verify(argv.key, SuppliedDigest, DeliveredSig)

-----------------------------------------------------------------------------
(* C8 *)

\* the caller supplied a digest the program could obtain
DigestSupplied ==
    /\ argv.key \in ValidKeys
    /\ IF argv.by_file
         THEN argv.input = InputPath /\ fs0.exists
         ELSE FirstLine # <<>> /\ ~NotValidHex(FirstLine)

\* C8: a signature is delivered only for a digest of exactly 48 bytes; a
\* digest of any other length, in either mode, yields no signature and
\* exit code 1.
C8_OnlyDigestSizeSigned ==
    /\ (Done /\ exitCode = 0)
         => DigestSupplied /\ Len(SuppliedDigest) = 48
    /\ (Done /\ DigestSupplied /\ Len(SuppliedDigest) # 48)
         => exitCode = 1 /\ NoSignatureOut

C8_Witness ==
    /\ Done
    /\ argv.by_file
    /\ DigestSupplied
    /\ fs0.data = <<>>
    /\ keyFiles[KeyTable(argv.key)] = "ec"
    /\ exitCode = 1

-----------------------------------------------------------------------------
(* C9 *)

\* C9: a failing invocation leaves the input file as it was (content and
\* existence) and standard output empty; the input file is opened for
\* writing only after the signature has been computed; an invocation
\* without --by-file never touches the input file.
C9_FailureHasNoOutput ==
    /\ (Done /\ exitCode # 0) => NoSignatureOut
    /\ \A i \in 1..Len(events) :
          events[i] = <<"open", InputPath, "wb">> =>
             \E j \in 1..(i - 1) : events[j] = <<"sign">>
    /\ ~argv.by_file =>
          fs = fs0 /\ \A i \in 1..Len(events) : ~TouchesInput(events[i])

C9_Witness ==
    /\ Done
    /\ argv.by_file
    /\ exitCode = 1
    /\ fs0.exists
    /\ Len(fs0.data) = DigestSize
    /\ KeyOpened
    /\ fs = fs0

-----------------------------------------------------------------------------
(* C10 *)

StdinOrder ==
    << <<"readline">>,
       <<"open", KeyTable(argv.key), "rb">>,
       <<"sign">>,
       <<"write_stdout">> >>

FileOrder ==
    << <<"exists", InputPath>>,
       <<"open", InputPath, "rb">>,
       <<"open", KeyTable(argv.key), "rb">>,
       <<"sign">>,
       <<"open", InputPath, "wb">> >>

\* C10: the checks run in a fixed order: key type, presence of --input,
\* existence of the input file or non-emptiness of the stdin line, digest
\* decoding, key loading and signing.  An unknown key type is reported
\* before stdin is read or the input file examined, also when --input is
\* missing too, and the key file is opened only once the digest has been
\* obtained.
C10_ChecksInOrder ==
    /\ (Done /\ KeyGiven /\ UnknownKeyType)
         => /\ events = <<>>
            /\ exitCode = 1
            /\ stderr = <<"Unknown key type">>
    /\ (Done /\ argv.key \in ValidKeys /\ argv.by_file
             /\ argv.input \in {NoArg, ""})
         => events = <<>> /\ exitCode = 1
    /\ IsPrefix(events, IF argv.by_file THEN FileOrder ELSE StdinOrder)
    /\ KeyOpened => DigestSupplied /\ digest = SuppliedDigest

C10_Witness ==
    /\ Done
    /\ argv.key = "rsa"
    /\ argv.by_file
    /\ argv.input = NoArg
    /\ stderr = <<"Unknown key type">>

=============================================================================
